---- MODULE Spec2Model ----
(***************************************************************************)
(* github-metrics: the aggregation pipeline of src/github_metrics/main.py. *)
(*                                                                         *)
(* main() builds a Config, a GraphQLClient and a StatsCollector, calls     *)
(* StatsCollector.run() and renders the returned MetricsResult into two    *)
(* SVG files.  run() is one sequential function; it is cut here at its     *)
(* network exchanges and at its loop heads, so that the state between two  *)
(* processed edges, and the state in which an exchange fails, are states   *)
(* of the model.                                                           *)
(*                                                                         *)
(* Python strings are sequences of one-character strings, so that          *)
(* str.lower(), str.split("/") and the slice [:7] are computed, not        *)
(* assumed.  Python's None in a string position is the sequence None.      *)
(***************************************************************************)
EXTENDS Integers, Sequences, FiniteSets

VARIABLES
    config,             \* Config (immutable once built)
    server,             \* what the GraphQL server holds: the owner's repositories
    pc,                 \* position in main() / StatsCollector.run()
    owner_name,         \* run(): owner_name
    first_owner,        \* the repositoryOwner object of the first listing response
                        \* that carried one (NoOwner before it)
    totals,             \* run(): total_stars, total_forks, total_lines, repository_count
    language_totals,    \* run(): the dict language_totals, in insertion order
    cursor,             \* run(): cursor of the repository listing
    page,               \* run(): nodes still to visit, with the page's pageInfo
    lang,               \* run(): the node in hand, its edges, the language cursor
    requests,           \* every exchange so far, in order: what was sent, how it ended
    seen_edges,         \* every edge the edge loop has visited so far, in order,
                        \* with whether the loop added it to the totals
    raised,             \* the exception in flight, or "none"
    total_contributions,\* run(): total_contributions
    metrics,            \* main(): <<>> or <<MetricsResult>>
    written,            \* the artifacts written to the output directory
    exit_status         \* process exit status: -1 while running

vars == <<config, server, pc, owner_name, first_owner,
          totals, language_totals, cursor, page,
          lang, requests, seen_edges, raised, total_contributions, metrics,
          written, exit_status>>

(***************************************************************************)
(* Bounds of the model.                                                    *)
(***************************************************************************)
\* most repositories the server holds
MaxRepos == 3
\* repositories per listing page (the query asks for 50)
RepoPageSize == 1
\* language edges per page (the queries ask for 100)
LangPageSize == 2
\* largest LANGS_LIMIT tried
MaxLimit == 2

(***************************************************************************)
(* Strings.                                                                *)
(***************************************************************************)
\* None in a position that holds a string: a token that is no string of characters
None == <<"<None>">>
\* Python truthiness of an optional string: None and "" are falsy
Truthy(s) == s # None /\ s # <<>>
\* x or y, on optional strings
OrElse(x, y) == IF Truthy(x) THEN x ELSE y

LowerChar(c) ==
    CASE c = "A" -> "a" [] c = "B" -> "b" [] c = "C" -> "c" [] c = "G" -> "g"
      [] c = "M" -> "m" [] c = "O" -> "o"
      [] OTHER -> c
\* str.lower()
Lower(s) == [i \in DOMAIN s |-> LowerChar(s[i])]

\* "/" in s
HasSlash(s) == \E i \in DOMAIN s : s[i] = "/"
\* s.split("/")[0]
SplitFirst(s) ==
    IF HasSlash(s)
    THEN LET k == CHOOSE i \in DOMAIN s :
                      s[i] = "/" /\ \A j \in 1..(i - 1) : s[j] # "/"
         IN SubSeq(s, 1, k - 1)
    ELSE s
\* s[:n]
Prefix(s, n) == SubSeq(s, 1, IF Len(s) < n THEN Len(s) ELSE n)

DEFAULT_LANGUAGE_COLOR == <<"#", "e", "d", "e", "d", "e", "d">>
ColorWidth == 7

(***************************************************************************)
(* JSON values of an edge's size, and Python's int() on them.              *)
(*   int    an integer v                                                   *)
(*   float  a float, v in tenths (25 is 2.5)                               *)
(*   str    a string that spells the integer v                             *)
(*   junk   a string that spells no integer                                *)
(*   none   null, or the key missing                                       *)
(***************************************************************************)
IntV(n) == [t |-> "int", v |-> n]
FloatV(tenths) == [t |-> "float", v |-> tenths]
StrV(n) == [t |-> "str", v |-> n]
JunkV == [t |-> "junk", v |-> 0]
NoneV == [t |-> "none", v |-> 0]

\* edge.get("size") or 0
SizeOrZero(sv) ==
    IF sv.t = "none" \/ (sv.t \in {"int", "float"} /\ sv.v = 0) THEN IntV(0) ELSE sv
\* int(x): [ok |-> FALSE] stands for TypeError / ValueError
PyInt(sv) ==
    CASE sv.t = "int" -> [ok |-> TRUE, v |-> sv.v]
      [] sv.t = "float" ->
            [ok |-> TRUE,
             v |-> IF sv.v >= 0 THEN sv.v \div 10 ELSE -((-sv.v) \div 10)]
      [] sv.t = "str" -> [ok |-> TRUE, v |-> sv.v]
      [] OTHER -> [ok |-> FALSE, v |-> 0]

(***************************************************************************)
(* What the server can hold.  An edge is (size, node{name, color}); the    *)
(* edges below cover every branch of the edge loop (lines 296-329).        *)
(***************************************************************************)
Edge(name, size, color) == [name |-> name, size |-> size, color |-> color]

Go == <<"G", "o">>
go == <<"g", "o">>
C == <<"C">>
ColA == <<"#", "a">>
ColB == <<"#", "b">>
ColLong == <<"#", "1", "2", "3", "4", "5", "6", "7", "8">>

Login == <<"m">>
OtherOwner == <<"O">>

Repo(owner, name, stars, forks, isFork, langs) ==
    [owner |-> owner, name |-> name, stars |-> stars, forks |-> forks,
     isFork |-> isFork, langs |-> langs]

\* m/A: three well-formed languages, inserted in an order that is not size order
RepoA ==
    Repo(Login, <<"A">>, 2, 1, FALSE,
         <<Edge(C, IntV(2), ColLong), Edge(Go, IntV(4), ColA), Edge(go, IntV(1), <<>>)>>)
\* O/b: a fork, whose edges are colourless or malformed in every way the loop tests
RepoB ==
    Repo(OtherOwner, <<"b">>, 2, 0, TRUE,
         <<Edge(Go, IntV(1), None), Edge(C, JunkV, ColA),
           Edge(None, IntV(3), ColA), Edge(Go, IntV(0), ColA),
           Edge(C, FloatV(25), ColB), Edge(go, StrV(3), None)>>)
\* m/c: no edge is accepted
RepoC ==
    Repo(Login, <<"c">>, 1, 3, FALSE,
         <<Edge(Go, IntV(-1), ColB), Edge(C, NoneV, ColB)>>)

Catalog == {RepoA, RepoB, RepoC}

\* the listing is ordered by stargazers, descending (lines 155-160)
OrderedByStars(rs) == \A i \in 1..(Len(rs) - 1) : rs[i].stars >= rs[i + 1].stars
Distinct(rs) == \A i, j \in DOMAIN rs : i # j => rs[i] # rs[j]
Servers ==
    {rs \in UNION {[1..n -> Catalog] : n \in 0..MaxRepos} :
        Distinct(rs) /\ OrderedByStars(rs)}

\* parse_csv lowercases and strips: the sets hold lowercase, non-empty names
ExcludedRepoSets == {{}, {<<"a">>}, {<<"m", "/", "a">>}, {<<"o", "/", "b">>, <<"c">>}}
ExcludedLanguageSets == {{}, {go}}

Configs ==
    [login : {Login},
     excluded_repos : ExcludedRepoSets,
     excluded_languages : ExcludedLanguageSets,
     exclude_forked : BOOLEAN,
     languages_limit : 1..MaxLimit]

(***************************************************************************)
(* The server's side of the three queries.  A cursor is the number of      *)
(* items already delivered; NoCursor is the unset cursor (None).           *)
(***************************************************************************)
NoCursor == 0
\* isFork variable of the listing: "none" (no filter), "false" (non-forks only)
Visible(rs, isFork) ==
    SelectSeq(rs, LAMBDA r : isFork = "none" \/ (r.isFork = (isFork = "true")))

Min(a, b) == IF a < b THEN a ELSE b

\* one page of a list: the items after `after`, at most `size` of them
PageOf(items, after, size) ==
    LET last == Min(Len(items), after + size)
        part == SubSeq(items, after + 1, last)
    IN [items |-> part,
        hasNextPage |-> last < Len(items),
        endCursor |-> IF part = <<>> THEN NoCursor ELSE last]

NameWithOwner(r) == r.owner \o <<"/">> \o r.name

\* a node of the listing, with its inline languages block (lines 161-181)
NodeOf(r) ==
    LET p == PageOf(r.langs, 0, LangPageSize)
    IN [name |-> r.name, nameWithOwner |-> NameWithOwner(r),
        stargazerCount |-> r.stars, forkCount |-> r.forks, isFork |-> r.isFork,
        edges |-> p.items, hasNextPage |-> p.hasNextPage, endCursor |-> p.endCursor]

\* repositories(first, after: $cursor, isFork: $isFork)
RepositoriesPage(rs, after, isFork) ==
    LET p == PageOf(Visible(rs, isFork), after, RepoPageSize)
    IN [nodes |-> [i \in DOMAIN p.items |-> NodeOf(p.items[i])],
        hasNextPage |-> p.hasNextPage, endCursor |-> p.endCursor]

\* repository(owner, name) { languages(first, after: $cursor) }: an unknown
\* repository is null, which the client reads as no edges and no next page
LanguagesPage(rs, owner, name, after) ==
    LET hit == SelectSeq(rs, LAMBDA r : r.owner = owner /\ r.name = name)
    IN IF hit = <<>>
       THEN [items |-> <<>>, hasNextPage |-> FALSE, endCursor |-> NoCursor]
       ELSE PageOf(hit[1].langs, after, LangPageSize)

(***************************************************************************)
(* GraphQLClient.execute: how one exchange can end.                        *)
(***************************************************************************)
Outcomes == {"ok", "http_error", "connection_error", "invalid_json", "errors", "no_data"}
\* what execute raises: session.post raises a requests exception when the
\* connection fails (no handler in execute); raise_for_status, response.json,
\* the errors list and a missing data field are turned into GitHubAPIError
ExecuteRaises(outcome) ==
    CASE outcome = "ok" -> "none"
      [] outcome = "connection_error" -> "RequestException"
      [] OTHER -> "GitHubAPIError"

\* the repositoryOwner object of a listing response
\* repositoryOwner: null
NoOwner == [present |-> FALSE, name |-> None, login |-> None]
\* the login as the server spells it
CanonicalLogin == <<"M">>
Owners ==
    {NoOwner,
     [present |-> TRUE, name |-> <<"M", "e">>, login |-> CanonicalLogin],
     [present |-> TRUE, name |-> <<>>, login |-> CanonicalLogin],
     [present |-> TRUE, name |-> None, login |-> None]}
\* owner.get("name") or owner.get("login") or self.config.login
DisplayNameOf(cfg, owner) == OrElse(owner.name, OrElse(owner.login, cfg.login))
\* a slip: the name is taken from every page
CapturedName_Overwrite(cfg, current, owner) == DisplayNameOf(cfg, owner)
\* lines 254-257: the name is taken only while owner_name is None
CapturedName(cfg, current, owner) ==
    IF current = None THEN DisplayNameOf(cfg, owner) ELSE current

\* the totalContributions field of a successful contributions response
ContributionValues == {NoneV, IntV(5), JunkV}
\* calendar.get("totalContributions") or 0, then int(total), 0 when it raises
ContributionsOf(sv) ==
    LET r == PyInt(SizeOrZero(sv)) IN IF r.ok THEN r.v ELSE 0

(***************************************************************************)
(* StatsCollector.run: the pieces of the loop bodies.                      *)
(***************************************************************************)
\* a slip: the filter is never set
IsForkFilter_Never(cfg) == "none"
\* is_fork_filter = False if self.config.exclude_forked else None
IsForkFilter(cfg) == IF cfg.exclude_forked THEN "false" ELSE "none"

\* name_with_owner = node.get("nameWithOwner") or repo_name
QualifiedName(node) == OrElse(node.nameWithOwner, node.name)
\* a slip: only the bare name is tested
RepoExcluded_BareNameOnly(cfg, node) ==
    cfg.excluded_repos \cap {Lower(node.name)} # {}
\* self.config.excluded_repos & {repo_name.lower(), name_with_owner.lower()}
RepoExcluded(cfg, node) ==
    cfg.excluded_repos \cap {Lower(node.name), Lower(QualifiedName(node))} # {}
\* the node is passed over: it has no name, or it is excluded
NodeSkipped(cfg, node) == ~Truthy(node.name) \/ RepoExcluded(cfg, node)

\* owner of the language-page query
OwnerPart(cfg, node) ==
    IF HasSlash(QualifiedName(node)) THEN SplitFirst(QualifiedName(node)) ELSE cfg.login

\* a slip: the name is tested as returned, not lowercased
LanguageExcluded_CaseSensitive(cfg, lang_name) == lang_name \in cfg.excluded_languages
\* lang_name.lower() in self.config.excluded_languages
LanguageExcluded(cfg, lang_name) == Lower(lang_name) \in cfg.excluded_languages

\* the edge passes the four tests of the edge loop
EdgeAccepted(cfg, edge) ==
    /\ Truthy(edge.name)
    /\ ~LanguageExcluded(cfg, edge.name)
    /\ PyInt(SizeOrZero(edge.size)).ok
    /\ PyInt(SizeOrZero(edge.size)).v > 0
\* size = int(size_value)
EdgeSize(edge) == PyInt(SizeOrZero(edge.size)).v
\* color = lang_node.get("color") or DEFAULT_LANGUAGE_COLOR
EdgeColor(edge) == OrElse(edge.color, DEFAULT_LANGUAGE_COLOR)

HasBucket(lt, name) == \E i \in DOMAIN lt : lt[i].name = name
\* language_totals.setdefault(lang_name, {"size": 0, "color": color or DEFAULT})
SetDefault(lt, name, color) ==
    IF HasBucket(lt, name)
    THEN lt
    ELSE Append(lt, [name |-> name, size |-> 0,
                     color |-> OrElse(color, DEFAULT_LANGUAGE_COLOR)])
\* a slip: the size is assigned, not summed
UpdateBucket_Overwrite(bucket, size, color) ==
    [bucket EXCEPT !.size = size,
                   !.color = IF ~Truthy(@) /\ Truthy(color) THEN color ELSE @]
\* bucket["size"] += size; the colour is set only while the bucket has none
UpdateBucket(bucket, size, color) ==
    [bucket EXCEPT !.size = @ + size,
                   !.color = IF ~Truthy(@) /\ Truthy(color) THEN color ELSE @]
\* lines 323-329 for one accepted edge
MergeEdge(lt, edge) ==
    LET with == SetDefault(lt, edge.name, EdgeColor(edge))
    IN [i \in DOMAIN with |->
           IF with[i].name = edge.name
           THEN UpdateBucket(with[i], EdgeSize(edge), EdgeColor(edge))
           ELSE with[i]]

(***************************************************************************)
(* StatsCollector._build_language_shares.                                  *)
(***************************************************************************)
\* x goes after every item at least as large: the sort is stable and descending
InsertDesc(sorted, x) ==
    LET k == Cardinality({i \in DOMAIN sorted : sorted[i].size >= x.size})
    IN SubSeq(sorted, 1, k) \o <<x>> \o SubSeq(sorted, k + 1, Len(sorted))
RECURSIVE SortedItems(_)
\* sorted(language_totals.items(), key=size, reverse=True)
SortedItems(lt) ==
    IF lt = <<>> THEN <<>>
    ELSE InsertDesc(SortedItems(SubSeq(lt, 1, Len(lt) - 1)), lt[Len(lt)])

\* one LanguageShare; percent = size / total_lines * 100 is kept as a fraction
ShareOf(bucket, total_lines) ==
    [name |-> bucket.name, size |-> bucket.size,
     color |-> Prefix(OrElse(bucket.color, DEFAULT_LANGUAGE_COLOR), ColorWidth),
     percent |-> [num |-> bucket.size * 100, den |-> total_lines]]

\* a slip: the limit is applied to the accumulator before the sort
BuildLanguageShares_TruncateFirst(cfg, lt, total_lines) ==
    IF total_lines <= 0 \/ lt = <<>>
    THEN <<>>
    ELSE LET kept == SortedItems(SubSeq(lt, 1, Min(Len(lt), cfg.languages_limit)))
         IN [i \in DOMAIN kept |-> ShareOf(kept[i], total_lines)]

BuildLanguageShares(cfg, lt, total_lines) ==
    IF total_lines <= 0 \/ lt = <<>>
    THEN <<>>
    ELSE LET sorted == SortedItems(lt)
             kept == SubSeq(sorted, 1, Min(Len(sorted), cfg.languages_limit))
         IN [i \in DOMAIN kept |-> ShareOf(kept[i], total_lines)]

(***************************************************************************)
(* State after construction: main() has its Config and run() has set its   *)
(* locals (lines 228-236) and stands at the head of the listing loop.      *)
(***************************************************************************)
NoPage == [nodes |-> <<>>, hasNextPage |-> FALSE, endCursor |-> NoCursor]
NoLang == [name |-> <<>>, owner |-> <<>>, stars |-> 0, forks |-> 0,
           edges |-> <<>>, next_cursor |-> NoCursor]
Request(kind, after, isFork, owner, name, outcome) ==
    [kind |-> kind, cursor |-> after, isFork |-> isFork, owner |-> owner,
     name |-> name, outcome |-> outcome]

Init ==
    /\ config \in Configs
    /\ server \in Servers
    /\ pc = "repo_query"
    /\ owner_name = None
    /\ first_owner = NoOwner
    /\ totals = [total_stars |-> 0, total_forks |-> 0, total_lines |-> 0,
                 repository_count |-> 0]
    /\ language_totals = <<>>
    /\ cursor = NoCursor
    /\ page = NoPage
    /\ lang = NoLang
    /\ requests = <<>>
    /\ seen_edges = <<>>
    /\ raised = "none"
    /\ total_contributions = 0
    /\ metrics = <<>>
    /\ written = {}
    /\ exit_status = -1

\* a slip: the failure is swallowed and run() goes on to the contributions
AfterQueryFailure_Swallowed == "contrib"
\* where run() goes when a listing or language-page exchange raises: nothing in
\* run() or _fetch_additional_languages catches it
AfterQueryFailure == "raise"
\* where _fetch_contributions_total goes when its exchange raises `exc`
AfterContributionsFailure(exc) == IF exc = "GitHubAPIError" THEN "build" ELSE "raise"

\* lines 239-260: one listing exchange, the owner check, the display name
RepoQuery ==
    /\ pc = "repo_query"
    /\ \E outcome \in Outcomes, owner \in Owners :
        LET exc == ExecuteRaises(outcome) IN
        /\ requests' = Append(requests,
               Request("repositories", cursor, IsForkFilter(config), <<>>, <<>>, outcome))
        /\ IF exc # "none"
           THEN /\ raised' = exc
                /\ pc' = AfterQueryFailure
                /\ UNCHANGED <<owner_name, first_owner, page>>
           ELSE IF ~owner.present
           THEN /\ raised' = "ConfigError"
                /\ pc' = "raise"
                /\ UNCHANGED <<owner_name, first_owner, page>>
           ELSE /\ owner_name' = CapturedName(config, owner_name, owner)
                /\ first_owner' = IF first_owner = NoOwner THEN owner ELSE first_owner
                /\ page' = RepositoriesPage(server, cursor, IsForkFilter(config))
                /\ pc' = "node"
                /\ UNCHANGED raised
    /\ UNCHANGED <<config, server, totals, language_totals, cursor, lang, seen_edges,
                   total_contributions, metrics, written, exit_status>>

\* lines 262-293, up to the first language-page exchange
BeginNode ==
    /\ pc = "node"
    /\ page.nodes # <<>>
    /\ LET node == Head(page.nodes)
           more == node.hasNextPage /\ Truthy(QualifiedName(node))
           next == IF more THEN node.endCursor ELSE NoCursor
       IN /\ page' = [page EXCEPT !.nodes = Tail(@)]
          /\ IF NodeSkipped(config, node)
             THEN UNCHANGED <<pc, lang>>
             ELSE /\ lang' = [name |-> node.name, owner |-> OwnerPart(config, node),
                              stars |-> node.stargazerCount, forks |-> node.forkCount,
                              edges |-> node.edges, next_cursor |-> next]
                  /\ pc' = IF next # NoCursor THEN "lang_query" ELSE "edge"
    /\ UNCHANGED <<config, server, owner_name, first_owner,
                   totals, language_totals, cursor,
                   requests, seen_edges, raised, total_contributions, metrics,
                   written, exit_status>>

\* a slip: one continuation page only (an if in place of the while)
NextLanguageCursor_StopAfterOne(p) == NoCursor
\* the cursor _fetch_additional_languages goes on with after a page
NextLanguageCursor(p) == IF p.hasNextPage THEN p.endCursor ELSE NoCursor

\* lines 385-397: one turn of the loop of _fetch_additional_languages
LangQuery ==
    /\ pc = "lang_query"
    /\ \E outcome \in Outcomes :
        LET exc == ExecuteRaises(outcome)
            p == LanguagesPage(server, lang.owner, lang.name, lang.next_cursor)
        IN
        /\ requests' = Append(requests,
               Request("languages", lang.next_cursor, "unset", lang.owner, lang.name,
                       outcome))
        /\ IF exc # "none"
           THEN /\ raised' = exc
                /\ pc' = AfterQueryFailure
                /\ UNCHANGED lang
           ELSE /\ lang' = [lang EXCEPT !.edges = @ \o p.items,
                                        !.next_cursor = NextLanguageCursor(p)]
                /\ pc' = IF NextLanguageCursor(p) # NoCursor THEN "lang_query" ELSE "edge"
                /\ UNCHANGED raised
    /\ UNCHANGED <<config, server, owner_name, first_owner,
                   totals, language_totals, cursor, page,
                   seen_edges, total_contributions, metrics, written, exit_status>>

\* lines 296-329: one turn of the edge loop
ProcessEdge ==
    /\ pc = "edge"
    /\ lang.edges # <<>>
    /\ LET edge == Head(lang.edges) IN
        /\ seen_edges' = Append(seen_edges,
               [edge |-> edge, added |-> EdgeAccepted(config, edge)])
        /\ lang' = [lang EXCEPT !.edges = Tail(@)]
        /\ IF EdgeAccepted(config, edge)
           THEN /\ totals' = [totals EXCEPT !.total_lines = @ + EdgeSize(edge)]
                /\ language_totals' = MergeEdge(language_totals, edge)
           ELSE UNCHANGED <<totals, language_totals>>
    /\ UNCHANGED <<config, server, pc, owner_name, first_owner,
                   cursor, page, requests, raised,
                   total_contributions, metrics, written, exit_status>>

\* lines 331-336: the node's stars and forks, and the repository count
EndNode ==
    /\ pc = "edge"
    /\ lang.edges = <<>>
    /\ totals' = [totals EXCEPT !.total_stars = @ + lang.stars,
                                !.total_forks = @ + lang.forks,
                                !.repository_count = @ + 1]
    /\ lang' = NoLang
    /\ pc' = "node"
    /\ UNCHANGED <<config, server, owner_name, first_owner,
                   language_totals, cursor, page, requests,
                   seen_edges, raised, total_contributions, metrics, written,
                   exit_status>>

\* a slip: the loop is left after the first page
MorePages_Never(pg) == FALSE
\* page_info.get("hasNextPage")
MorePages(pg) == pg.hasNextPage

\* lines 354-361: the page is done; go on with its end cursor, or leave the loop
EndPage ==
    /\ pc = "node"
    /\ page.nodes = <<>>
    /\ IF MorePages(page)
       THEN /\ cursor' = page.endCursor
            /\ pc' = "repo_query"
            /\ UNCHANGED owner_name
       ELSE /\ owner_name' = IF owner_name = None THEN config.login ELSE owner_name
            /\ pc' = "contrib"
            /\ UNCHANGED cursor
    /\ page' = NoPage
    /\ UNCHANGED <<config, server, first_owner,
                   totals, language_totals, lang, requests, seen_edges,
                   raised, total_contributions, metrics, written, exit_status>>

\* lines 400-419: _fetch_contributions_total
ContribQuery ==
    /\ pc = "contrib"
    /\ \E outcome \in Outcomes, value \in ContributionValues :
        LET exc == ExecuteRaises(outcome) IN
        /\ requests' = Append(requests,
               Request("contributions", NoCursor, "unset", <<>>, <<>>, outcome))
        /\ IF exc # "none"
           THEN /\ pc' = AfterContributionsFailure(exc)
                /\ raised' = IF AfterContributionsFailure(exc) = "raise"
                             THEN exc ELSE "none"
                /\ total_contributions' = 0
           ELSE /\ pc' = "build"
                /\ total_contributions' = ContributionsOf(value)
                /\ UNCHANGED raised
    /\ UNCHANGED <<config, server, owner_name, first_owner,
                   totals, language_totals, cursor, page,
                   lang, seen_edges, metrics, written, exit_status>>

\* lines 364-378: the MetricsResult that run() returns
ResultOf(cfg, name, tot, lt, contributions) ==
    [actor_login |-> cfg.login,
     display_name |-> name,
     total_stars |-> tot.total_stars,
     total_forks |-> tot.total_forks,
     total_contributions |-> contributions,
     total_lines_changed |-> tot.total_lines,
     total_views |-> 0,
     repository_count |-> tot.repository_count,
     languages |-> BuildLanguageShares(cfg, lt, tot.total_lines)]

BuildResult ==
    /\ pc = "build"
    /\ metrics' = <<ResultOf(config, owner_name, totals, language_totals,
                            total_contributions)>>
    /\ pc' = "render_languages"
    /\ UNCHANGED <<config, server, owner_name, first_owner,
                   totals, language_totals, cursor, page,
                   lang, requests, seen_edges, raised, total_contributions, written,
                   exit_status>>

\* main(), lines 557-561: ConfigError and GitHubAPIError are logged and the
\* process exits with status 1; any other exception is uncaught, and the
\* interpreter prints the traceback and exits with status 1 as well
Abort ==
    /\ pc = "raise"
    /\ exit_status' = 1
    /\ pc' = "exit"
    /\ UNCHANGED <<config, server, owner_name, first_owner,
                   totals, language_totals, cursor, page,
                   lang, requests, seen_edges, raised, total_contributions, metrics,
                   written>>

\* main(), lines 563-565
RenderLanguages ==
    /\ pc = "render_languages"
    /\ written' = written \cup {"languages.svg"}
    /\ pc' = "render_overview"
    /\ UNCHANGED <<config, server, owner_name, first_owner,
                   totals, language_totals, cursor, page,
                   lang, requests, seen_edges, raised, total_contributions, metrics,
                   exit_status>>

RenderOverview ==
    /\ pc = "render_overview"
    /\ written' = written \cup {"overview.svg"}
    /\ pc' = "summary"
    /\ UNCHANGED <<config, server, owner_name, first_owner,
                   totals, language_totals, cursor, page,
                   lang, requests, seen_edges, raised, total_contributions, metrics,
                   exit_status>>

\* main(), lines 567-579: the summary is logged and main returns
Finish ==
    /\ pc = "summary"
    /\ exit_status' = 0
    /\ pc' = "exit"
    /\ UNCHANGED <<config, server, owner_name, first_owner,
                   totals, language_totals, cursor, page,
                   lang, requests, seen_edges, raised, total_contributions, metrics,
                   written>>

Next ==
    \/ RepoQuery
    \/ BeginNode
    \/ LangQuery
    \/ ProcessEdge
    \/ EndNode
    \/ EndPage
    \/ ContribQuery
    \/ BuildResult
    \/ Abort
    \/ RenderLanguages
    \/ RenderOverview
    \/ Finish

Spec == Init /\ [][Next]_vars

\* the run is sequential and every exchange returns or raises (the client's
\* timeout, line 118): a step that can be taken is taken
FairSpec == Spec /\ WF_vars(Next)

(***************************************************************************)
(* The loop bodies in one piece: what lines 262-336 make of a listing      *)
(* whose repositories each arrive with all their edges inline.             *)
(***************************************************************************)
RECURSIVE FoldEdges(_, _, _)
FoldEdges(cfg, acc, edges) ==
    IF edges = <<>> THEN acc
    ELSE LET edge == Head(edges)
             next == IF EdgeAccepted(cfg, edge)
                     THEN [acc EXCEPT
                              !.totals.total_lines = @ + EdgeSize(edge),
                              !.language_totals = MergeEdge(@, edge)]
                     ELSE acc
         IN FoldEdges(cfg, next, Tail(edges))

AggregateRepo(cfg, acc, r) ==
    IF NodeSkipped(cfg, NodeOf(r))
    THEN acc
    ELSE LET a == FoldEdges(cfg, acc, r.langs)
         IN [a EXCEPT !.totals.total_stars = @ + r.stars,
                      !.totals.total_forks = @ + r.forks,
                      !.totals.repository_count = @ + 1]

RECURSIVE AggregateFrom(_, _, _)
AggregateFrom(cfg, acc, rs) ==
    IF rs = <<>> THEN acc
    ELSE AggregateFrom(cfg, AggregateRepo(cfg, acc, Head(rs)), Tail(rs))

Aggregate(cfg, rs) ==
    AggregateFrom(cfg,
        [totals |-> [total_stars |-> 0, total_forks |-> 0, total_lines |-> 0,
                     repository_count |-> 0],
         language_totals |-> <<>>],
        rs)

(***************************************************************************)
(* Vocabulary of the properties.                                           *)
(***************************************************************************)
\* the listing loop has been left through its break
PaginationDone == pc \in {"contrib", "build", "render_languages", "render_overview",
                          "summary"} \/ (pc = "exit" /\ exit_status = 0)
\* what run() holds in its accumulators
Accumulated == [totals |-> totals, language_totals |-> language_totals]
\* the repositories the listing delivers under the configured fork policy
Listed == SelectSeq(server, LAMBDA r : ~(config.exclude_forked /\ r.isFork))
RequestsOf(kind) == SelectSeq(requests, LAMBDA q : q.kind = kind)

RECURSIVE SumOf(_)
SumOf(ns) == IF ns = <<>> THEN 0 ELSE Head(ns) + SumOf(Tail(ns))

(***************************************************************************)
(* C1.  A repository item whose lowercased name or lowercased qualified    *)
(* name is in the excluded-repository set touches no counter: when the     *)
(* listing loop is over, the totals and the per-language accumulator are   *)
(* those of the same listing without the excluded items, and the           *)
(* repository count is that of the listing under an empty exclusion set    *)
(* less one per excluded item.                                             *)
(***************************************************************************)
NamedInExclusions(r) ==
    \/ Lower(r.name) \in config.excluded_repos
    \/ Lower(NameWithOwner(r)) \in config.excluded_repos
WithoutExclusions == [config EXCEPT !.excluded_repos = {}]

\* C1: once the listing loop is over, the accumulators are those of the listing
\* without the excluded items, and the count is one lower per excluded item
C1_ExcludedRepositoryTouchesNothing ==
    PaginationDone =>
        LET kept == SelectSeq(Listed, LAMBDA r : ~NamedInExclusions(r))
        IN /\ Accumulated = Aggregate(WithoutExclusions, kept)
           /\ totals.repository_count =
                  Aggregate(WithoutExclusions, Listed).totals.repository_count
                  - (Len(Listed) - Len(kept))

\* a finished run in which one item was excluded by its qualified name only,
\* had languages of its own, and another item was counted
C1_Witness ==
    /\ metrics # <<>>
    /\ metrics[1].repository_count >= 1
    /\ \E i \in DOMAIN Listed :
          /\ Lower(Listed[i].name) \notin config.excluded_repos
          /\ Lower(NameWithOwner(Listed[i])) \in config.excluded_repos
          /\ Aggregate(WithoutExclusions, <<Listed[i]>>).totals.total_lines > 0

(***************************************************************************)
(* C2.  A language edge whose lowercased name is in the excluded-languages *)
(* set adds nothing to the grand total or to any per-language accumulator, *)
(* and no language of such a name is in MetricsResult.languages; the       *)
(* repository is still counted.  The accumulators are those of the listing *)
(* with those edges taken out, under an empty excluded-languages set.      *)
(***************************************************************************)
LanguageNamedInExclusions(edge) ==
    Truthy(edge.name) /\ Lower(edge.name) \in config.excluded_languages
WithoutLanguage(r) ==
    [r EXCEPT !.langs = SelectSeq(@, LAMBDA e : ~LanguageNamedInExclusions(e))]
AllLanguages == [config EXCEPT !.excluded_languages = {}]

\* C2: no excluded language is accumulated, added or reported, and the
\* accumulators are those of the listing with the excluded edges taken out
C2_ExcludedLanguageContributesNothing ==
    /\ \A i \in DOMAIN language_totals :
          Lower(language_totals[i].name) \notin config.excluded_languages
    /\ \A i \in DOMAIN seen_edges :
          LanguageNamedInExclusions(seen_edges[i].edge) => ~seen_edges[i].added
    /\ PaginationDone =>
          Accumulated =
              Aggregate(AllLanguages, [i \in DOMAIN Listed |-> WithoutLanguage(Listed[i])])
    /\ metrics # <<>> =>
          \A i \in DOMAIN metrics[1].languages :
              Lower(metrics[1].languages[i].name) \notin config.excluded_languages

\* a finished run that counted a repository whose largest language is excluded,
\* and still reports some language
C2_Witness ==
    /\ metrics # <<>>
    /\ metrics[1].languages # <<>>
    /\ \E i \in DOMAIN Listed :
          /\ ~NamedInExclusions(Listed[i])
          /\ \E j \in DOMAIN Listed[i].langs :
                /\ LanguageNamedInExclusions(Listed[i].langs[j])
                /\ \A k \in DOMAIN Listed[i].langs :
                      EdgeSize(Listed[i].langs[k]) <= EdgeSize(Listed[i].langs[j])

(***************************************************************************)
(* C3.  After every processed edge the grand total equals the sum of the   *)
(* sizes of the edges accepted so far and the sum of the sizes held in the *)
(* per-language accumulator (the whole of it, not its first N entries).    *)
(* An edge with no name, a size int() cannot convert, or a converted size  *)
(* <= 0 is never added.  The size that is summed is the converted one: a   *)
(* fractional size is truncated toward zero, and is added when what is     *)
(* left is positive.                                                       *)
(***************************************************************************)
Added == SelectSeq(seen_edges, LAMBDA s : s.added)
Convertible(sv) == sv.t \in {"int", "float", "str", "none"}
Fractional(sv) == sv.t = "float" /\ sv.v % 10 # 0

\* C3 (amended): the grand total is the sum of the converted sizes of the added
\* edges and the sum over the accumulator; an edge with no name, a size int()
\* rejects or a converted size <= 0 is never added; a fractional size of 1 or
\* more is added, truncated
C3_GrandTotalIsSumOfAccepted ==
    /\ totals.total_lines = SumOf([i \in DOMAIN Added |-> EdgeSize(Added[i].edge)])
    /\ totals.total_lines =
           SumOf([i \in DOMAIN language_totals |-> language_totals[i].size])
    /\ \A i \in DOMAIN seen_edges :
          LET e == seen_edges[i].edge IN
          /\ (~Truthy(e.name) \/ ~Convertible(e.size) \/ EdgeSize(e) <= 0)
                 => ~seen_edges[i].added
          /\ (Truthy(e.name) /\ ~LanguageNamedInExclusions(e)
                /\ Fractional(e.size) /\ e.size.v >= 10)
                 => seen_edges[i].added

\* the loop has met an edge with no name, one with a size int() rejects, one
\* with size <= 0, and has added others, a fractional one among them
C3_Witness ==
    /\ totals.total_lines > 0
    /\ \E i \in DOMAIN seen_edges : ~Truthy(seen_edges[i].edge.name)
    /\ \E i \in DOMAIN seen_edges : ~Convertible(seen_edges[i].edge.size)
    /\ \E i \in DOMAIN seen_edges :
          Truthy(seen_edges[i].edge.name) /\ seen_edges[i].edge.size = IntV(0)
    /\ \E i \in DOMAIN seen_edges :
          Fractional(seen_edges[i].edge.size) /\ seen_edges[i].added
    /\ Len(language_totals) >= 2

\* a size in tenths, as the server sent it
Tenths(sv) == IF sv.t = "float" THEN sv.v ELSE 10 * sv.v

\* C3 (as stated): the grand total is the sum of the sizes of the added edges and
\* the sum over the accumulator, and an edge with no name, a size that is not an
\* integer, or a size <= 0 is never added
C3_NonIntegerSizeNeverAdded ==
    /\ 10 * totals.total_lines =
           SumOf([i \in DOMAIN Added |-> Tenths(Added[i].edge.size)])
    /\ totals.total_lines =
           SumOf([i \in DOMAIN language_totals |-> language_totals[i].size])
    /\ \A i \in DOMAIN seen_edges :
          LET e == seen_edges[i].edge IN
          (~Truthy(e.name) \/ ~Convertible(e.size) \/ Fractional(e.size)
             \/ EdgeSize(e) <= 0)
                 => ~seen_edges[i].added

(***************************************************************************)
(* C4.  For every accumulator and limit N >= 1 the list of                 *)
(* _build_language_shares has min(N, number of distinct accepted names)    *)
(* entries, in non-increasing size, and they are the N largest of the      *)
(* accumulator: no language left out is strictly larger than one listed.   *)
(***************************************************************************)
Shares == BuildLanguageShares(config, language_totals, totals.total_lines)
AcceptedNames == {Added[i].edge.name : i \in DOMAIN Added}

\* C4: the list has min(N, distinct accepted names) entries, in non-increasing
\* size, and no language left out is strictly larger than one listed
C4_SharesAreTheLargestSorted ==
    /\ Len(Shares) = Min(config.languages_limit, Cardinality(AcceptedNames))
    /\ \A i, j \in DOMAIN Shares : i < j => Shares[i].size >= Shares[j].size
    /\ \A i, j \in DOMAIN Shares : i # j => Shares[i].name # Shares[j].name
    /\ \A i \in DOMAIN Shares :
          \E k \in DOMAIN language_totals :
              /\ language_totals[k].name = Shares[i].name
              /\ language_totals[k].size = Shares[i].size
    /\ \A k \in DOMAIN language_totals :
          (\A i \in DOMAIN Shares : Shares[i].name # language_totals[k].name)
              => \A i \in DOMAIN Shares : language_totals[k].size <= Shares[i].size
    /\ metrics # <<>> => metrics[1].languages = Shares

\* a result whose list was cut, from an accumulator whose first entry is not
\* its largest
C4_Witness ==
    /\ metrics # <<>>
    /\ Len(language_totals) > config.languages_limit
    /\ Len(metrics[1].languages) = config.languages_limit
    /\ \E k \in DOMAIN language_totals : language_totals[k].size > language_totals[1].size

(***************************************************************************)
(* C5.  The contributions query is issued exactly once, after the listing  *)
(* loop is over, and a failure of it of any kind (non-2xx response,        *)
(* connection failure, invalid body, missing data field, non-empty errors  *)
(* list) is swallowed: nothing is raised, and run() returns a              *)
(* MetricsResult with total_contributions = 0 and the other totals as      *)
(* accumulated.                                                            *)
(***************************************************************************)
LastRequest == requests[Len(requests)]
ContributionsFailed ==
    /\ requests # <<>>
    /\ LastRequest.kind = "contributions"
    /\ LastRequest.outcome # "ok"

\* C5: one contributions query, after the listing loop; when it fails nothing is
\* raised and the result carries total_contributions = 0 and the other totals
C5_ContributionsFailureIsSwallowed ==
    /\ Len(RequestsOf("contributions")) <= 1
    /\ RequestsOf("contributions") # <<>> =>
          /\ LastRequest.kind = "contributions"
          /\ page = NoPage /\ lang = NoLang
    /\ metrics # <<>> => Len(RequestsOf("contributions")) = 1
    /\ ContributionsFailed =>
          /\ raised = "none"
          /\ total_contributions = 0
          /\ pc = "exit" => exit_status = 0
          /\ metrics # <<>> =>
                metrics[1] = ResultOf(config, owner_name, totals, language_totals, 0)

(***************************************************************************)
(* C6.  A failure of a repository-listing or language-page query aborts    *)
(* the run at once: no further query is issued (no retry, no contributions *)
(* query), no MetricsResult is produced, neither artifact is written, and  *)
(* the process ends with a non-zero exit status.                           *)
(***************************************************************************)
ListingFailed ==
    /\ requests # <<>>
    /\ LastRequest.kind \in {"repositories", "languages"}
    /\ LastRequest.outcome # "ok"

\* C6: after a failed listing or language-page exchange no request is added, no
\* result and no artifact exists, and the process ends with exit status 1
C6_ListingFailureAbortsTheRun ==
    /\ [](ListingFailed =>
            /\ raised # "none"
            /\ metrics = <<>>
            /\ written = {}
            /\ pc \in {"raise", "exit"}
            /\ pc = "exit" => exit_status = 1)
    /\ [][ListingFailed => requests' = requests]_vars
    /\ (ListingFailed ~> (pc = "exit" /\ exit_status # 0))

\* the process has ended on a language-page failure that came after two
\* exchanges that succeeded
C6_Witness ==
    /\ pc = "exit"
    /\ exit_status = 1
    /\ Len(requests) >= 3
    /\ LastRequest.kind = "languages"
    /\ LastRequest.outcome = "http_error"

(***************************************************************************)
(* C7.  When the inline language block of a repository reports more pages, *)
(* the continuation pages are fetched by following the language cursor     *)
(* until the server reports no further page, and all edges are merged      *)
(* before filtering: totals and language list are those of a run in which  *)
(* the same edges had come in one inline page.                             *)
(***************************************************************************)
\* the cursors of the language-page requests sent for repository r
LanguageCursors(r) ==
    LET mine == SelectSeq(requests,
                    LAMBDA q : q.kind = "languages" /\ q.owner = r.owner
                               /\ q.name = r.name)
    IN [i \in DOMAIN mine |-> mine[i].cursor]
\* the pages after the first that r's edges fill
ContinuationPages(r) ==
    IF r.langs = <<>> THEN 0 ELSE (Len(r.langs) - 1) \div LangPageSize

\* C7: the language cursors sent for a repository are those of its continuation
\* pages, in order, and accumulators and result equal those of the listing with
\* every repository's edges inline
C7_ContinuationEqualsOneInlinePage ==
    /\ PaginationDone =>
          /\ Accumulated = Aggregate(config, Listed)
          /\ \A i \in DOMAIN Listed :
                LanguageCursors(Listed[i]) =
                    IF NamedInExclusions(Listed[i]) THEN <<>>
                    ELSE [j \in 1..ContinuationPages(Listed[i]) |-> j * LangPageSize]
    /\ metrics # <<>> =>
          metrics[1] = ResultOf(config, owner_name, Aggregate(config, Listed).totals,
                                Aggregate(config, Listed).language_totals,
                                total_contributions)

\* a finished run that fetched two continuation pages for one repository and
\* added an edge of the last of them
C7_Witness ==
    /\ metrics # <<>>
    /\ \E i \in DOMAIN Listed :
          /\ Len(LanguageCursors(Listed[i])) >= 2
          /\ \E k \in DOMAIN seen_edges :
                /\ seen_edges[k].added
                /\ seen_edges[k].edge = Listed[i].langs[Len(Listed[i].langs)]

(***************************************************************************)
(* C8.  With fork exclusion configured, every repository-listing request   *)
(* carries isFork = false and no repository whose fork flag is true        *)
(* contributes to stars, forks, languages or the repository count; without *)
(* it no fork filter is sent and forks are counted unless excluded by      *)
(* name.                                                                   *)
(***************************************************************************)
Counted ==
    SelectSeq(server, LAMBDA r : ~(config.exclude_forked /\ r.isFork)
                                 /\ ~NamedInExclusions(r))
RECURSIVE EdgesOf(_)
EdgesOf(rs) == IF rs = <<>> THEN <<>> ELSE Head(rs).langs \o EdgesOf(Tail(rs))

\* C8: every listing request carries the configured fork filter and no other
\* request carries one; what is counted is the repositories that are not
\* filtered forks and not excluded by name, and only their edges are visited
C8_ForkPolicy ==
    /\ \A i \in DOMAIN requests :
          requests[i].isFork =
              IF requests[i].kind # "repositories" THEN "unset"
              ELSE IF config.exclude_forked THEN "false" ELSE "none"
    /\ PaginationDone =>
          /\ totals.repository_count = Len(Counted)
          /\ totals.total_stars = SumOf([i \in DOMAIN Counted |-> Counted[i].stars])
          /\ totals.total_forks = SumOf([i \in DOMAIN Counted |-> Counted[i].forks])
          /\ [i \in DOMAIN seen_edges |-> seen_edges[i].edge] = EdgesOf(Counted)

\* a finished run under fork exclusion, over a server that holds a fork, that
\* took two listing requests
C8_Witness ==
    /\ metrics # <<>>
    /\ config.exclude_forked
    /\ \E i \in DOMAIN server : server[i].isFork
    /\ Len(RequestsOf("repositories")) >= 2
    /\ totals.repository_count >= 1

(***************************************************************************)
(* C9.  The colour recorded for a language is the first non-empty colour   *)
(* among its accepted edges, in processing order; the default colour is    *)
(* recorded only when no accepted edge of the language carried one.        *)
(***************************************************************************)
ColouredEdgesOf(name) ==
    SelectSeq(Added, LAMBDA s : s.edge.name = name /\ Truthy(s.edge.color))

\* C9: every bucket holds the first non-empty colour of its added edges, or the
\* default colour when none of them carried one
C9_FirstNonEmptyColourIsRecorded ==
    \A k \in DOMAIN language_totals :
        language_totals[k].color =
            IF ColouredEdgesOf(language_totals[k].name) = <<>>
            THEN DEFAULT_LANGUAGE_COLOR
            ELSE ColouredEdgesOf(language_totals[k].name)[1].edge.color

(***************************************************************************)
(* C10.  Over a server that holds a finite listing the outer loop          *)
(* terminates: the first request carries the unset cursor, each later one  *)
(* the end cursor of the page just received, every page is requested and   *)
(* aggregated exactly once, and the loop stops at the first page that      *)
(* reports no further page.                                                *)
(***************************************************************************)
Listings == RequestsOf("repositories")
PageAt(q) == RepositoriesPage(server, q.cursor, q.isFork)
\* the pages the listing fills; an empty listing is one empty page
ListingPages ==
    IF Listed = <<>> THEN 1 ELSE (Len(Listed) + RepoPageSize - 1) \div RepoPageSize

\* C10: the listing cursors start unset, follow the end cursors, never repeat;
\* the loop is left after exactly the listing's pages, each aggregated once;
\* and the run ends
C10_ListingLoopTerminates ==
    /\ [](/\ Listings # <<>> => Listings[1].cursor = NoCursor
          /\ \A i \in 2..Len(Listings) :
                /\ Listings[i - 1].outcome = "ok"
                /\ PageAt(Listings[i - 1]).hasNextPage
                /\ Listings[i].cursor = PageAt(Listings[i - 1]).endCursor
          /\ \A i, j \in DOMAIN Listings :
                i # j => Listings[i].cursor # Listings[j].cursor
          /\ PaginationDone =>
                /\ Len(Listings) = ListingPages
                /\ ~PageAt(Listings[Len(Listings)]).hasNextPage
                /\ totals.repository_count = Len(Counted)
                /\ Len(seen_edges) = Len(EdgesOf(Counted)))
    /\ <>(pc = "exit")

\* a run that ended well after three listing pages
C10_Witness ==
    /\ pc = "exit"
    /\ exit_status = 0
    /\ Len(Listings) >= 3
    /\ totals.repository_count >= 2

(***************************************************************************)
(* C11.  The display name is fixed by the first successful listing page    *)
(* (the owner's name, else the owner's login, else the configured login)   *)
(* and no later page changes it, whatever owner it carries: the display    *)
(* name of the MetricsResult is non-empty and is the value derived from    *)
(* the first page.                                                         *)
(***************************************************************************)
FirstPageName ==
    IF Truthy(first_owner.name) THEN first_owner.name
    ELSE IF Truthy(first_owner.login) THEN first_owner.login
    ELSE config.login

\* C11: from the first listing response that carries an owner on, owner_name is
\* the name derived from that response, is never assigned again, and is the
\* non-empty display name of the result
C11_DisplayNameFixedByFirstPage ==
    /\ [](IF first_owner.present
          THEN owner_name = FirstPageName /\ Truthy(owner_name)
          ELSE owner_name = None /\ metrics = <<>>)
    /\ [](metrics # <<>> =>
            /\ metrics[1].display_name = FirstPageName
            /\ Truthy(metrics[1].display_name))
    /\ [][owner_name # None => owner_name' = owner_name]_vars

\* a finished run of three listing pages whose first page gave no name but a
\* login, which is the display name of the result
C11_Witness ==
    /\ metrics # <<>>
    /\ Len(Listings) >= 3
    /\ ~Truthy(first_owner.name)
    /\ Truthy(first_owner.login)
    /\ metrics[1].display_name = first_owner.login
    /\ metrics[1].display_name # config.login

====
